---------------------------- MODULE Spec2Model ----------------------------
(***************************************************************************)
(* Student management console (src/Sanyam_Pansari_HAHAHA.c).               *)
(*                                                                         *)
(* The global tables students[], courses[], enrollments[], system_log[]    *)
(* with their counts are sequences: table[i] of the source is seq[i+1]     *)
(* and the count is Len(seq).  Indices returned by the scans are the       *)
(* source's 0-based indices, -1 for "not found".                           *)
(*                                                                         *)
(* float values entered as grades are fixed-point numbers in tenths        *)
(* (59.9 is 599); NaN, which scanf("%f") accepts, is the value NaN below   *)
(* and compares false with everything, as in C.  Grade points (4.0 .. 0.0) *)
(* are whole numbers.  Text fields that the program validates (email,      *)
(* phone) are sequences of one-character strings; the other text fields    *)
(* are strings.  Timestamps (time(NULL)) are not modelled: no operation    *)
(* reads them back except to print them.                                   *)
(*                                                                         *)
(* out is what the last operation showed to its caller: the function       *)
(* called, its return value (1/0 for the int functions, 0 for void ones),  *)
(* the decisive console line, and the lines with figures it printed (or    *)
(* wrote to the export file), in order.                                    *)
(***************************************************************************)
EXTENDS Integers, Sequences, FiniteSets, TLC

VARIABLES students, courses, enrollments, system_log, pc, out

vars == <<students, courses, enrollments, system_log, pc, out>>

tables == <<students, courses, enrollments>>

(* ------------------------------------------------------------------ *)
(* Table capacities, scaled down so that "table full" is reached.      *)
(* The source has 500 / 100 / 5000 / 10000.                            *)
(* ------------------------------------------------------------------ *)
MAX_STUDENTS == 2

MAX_COURSES == 2

MAX_ENROLLMENTS == 2

MAX_LOG_ENTRIES == 2

(* ------------------------------------------------------------------ *)
(* Program constants                                                   *)
(* ------------------------------------------------------------------ *)
MIN_GRADE == 0

MAX_GRADE == 100

GRADE_A_MIN == 90

GRADE_B_MIN == 80

GRADE_C_MIN == 70

GRADE_D_MIN == 60

LOG_INFO == 1

LOG_WARNING == 2

LOG_ERROR == 3

LOG_SUCCESS == 4

STUDENT_ID_OFFSET == 1001

COURSE_ID_OFFSET == 5001

ENROLLMENT_ID_OFFSET == 7001

STATUS_PENDING == 0

STATUS_COMPLETED == 2

STATUS_DROPPED == 3

MIN_PHONE_LENGTH == 10

NaN == 999999

student_count == Len(students)

course_count == Len(courses)

enrollment_count == Len(enrollments)

log_entry_count == Len(system_log)

(* ------------------------------------------------------------------ *)
(* float comparisons of C: false when an operand is NaN                *)
(* ------------------------------------------------------------------ *)
FGe(a, b) == a # NaN /\ b # NaN /\ a >= b

FLt(a, b) == a # NaN /\ b # NaN /\ a < b

FGt(a, b) == a # NaN /\ b # NaN /\ a > b

(* an int constant of the source converted to the float scale *)
ToFloat(n) == n * 10

(* ------------------------------------------------------------------ *)
(* Utility functions                                                   *)
(* ------------------------------------------------------------------ *)
CountChar(s, ch) == Cardinality({i \in 1..Len(s) : s[i] = ch})

is_valid_email(email) ==
    LET has_at  == CountChar(email, "@")
        has_dot == CountChar(email, ".")
    IN  has_at = 1 /\ has_dot >= 1

Digits == {"0", "1", "2", "3", "4", "5", "6", "7", "8", "9"}

is_valid_phone(phone) ==
    IF Len(phone) < MIN_PHONE_LENGTH THEN FALSE
    ELSE \A i \in 1..Len(phone) : phone[i] \in Digits \/ phone[i] = "-" \/ phone[i] = " "

(* exclusive lower bounds *)
get_letter_grade_exclusive(marks) ==
    IF FGt(marks, ToFloat(GRADE_A_MIN)) THEN "A"
    ELSE IF FGt(marks, ToFloat(GRADE_B_MIN)) THEN "B"
    ELSE IF FGt(marks, ToFloat(GRADE_C_MIN)) THEN "C"
    ELSE IF FGt(marks, ToFloat(GRADE_D_MIN)) THEN "D"
    ELSE "F"

get_letter_grade(marks) ==
    IF FGe(marks, ToFloat(GRADE_A_MIN)) THEN "A"
    ELSE IF FGe(marks, ToFloat(GRADE_B_MIN)) THEN "B"
    ELSE IF FGe(marks, ToFloat(GRADE_C_MIN)) THEN "C"
    ELSE IF FGe(marks, ToFloat(GRADE_D_MIN)) THEN "D"
    ELSE "F"

get_gpa_from_grade(grade) ==
    CASE grade = "A" -> 4
      [] grade = "B" -> 3
      [] grade = "C" -> 2
      [] grade = "D" -> 1
      [] grade = "F" -> 0
      [] OTHER -> 0

LogEntry(id, level, operation, details) ==
    [log_id |-> id, log_level |-> level, operation |-> operation, details |-> details]

(* the text of a log detail: the format's fixed words, the %s argument and *)
(* the numeric arguments                                                   *)
Details(text, name, args) == [text |-> text, name |-> name, args |-> args]

(* a full log that overwrites its last entry instead of refusing *)
log_operation_overwrite(lg, level, operation, details) ==
    IF Len(lg) >= MAX_LOG_ENTRIES
    THEN [lg EXCEPT ![Len(lg)] = LogEntry(Len(lg), level, operation, details)]
    ELSE Append(lg, LogEntry(Len(lg) + 1, level, operation, details))

(* log_operation on the log lg: refused (lg returned as it is) when full *)
log_operation(lg, level, operation, details) ==
    IF Len(lg) >= MAX_LOG_ENTRIES THEN lg
    ELSE Append(lg, LogEntry(Len(lg) + 1, level, operation, details))

(* one printed line that carries a figure *)
Line(label, value) == [label |-> label, value |-> value]

(* what the caller of an operation sees *)
Out(op, ret, msg, val) == [op |-> op, ret |-> ret, msg |-> msg, val |-> val]

(* ------------------------------------------------------------------ *)
(* Linear scans: index of the first match, -1 when there is none       *)
(* ------------------------------------------------------------------ *)
(* matches is the set of positions (from 1) of the records that match *)
FirstIndex(matches) ==
    IF matches # {}
    THEN (CHOOSE i \in matches : \A j \in matches : i <= j) - 1
    ELSE -1

(* the scan of enroll_student_in_course and display_student_details *)
FindActiveStudent(student_id) ==
    FirstIndex({i \in 1..student_count :
                   students[i].student_id = student_id /\ students[i].is_active # 0})

(* the scan of view_student_enrollments and calculate_student_gpa *)
FindStudent(student_id) ==
    FirstIndex({i \in 1..student_count : students[i].student_id = student_id})

FindCourse(course_id) ==
    FirstIndex({i \in 1..course_count : courses[i].course_id = course_id})

FindEnrollment(enrollment_id) ==
    FirstIndex({i \in 1..enrollment_count : enrollments[i].enrollment_id = enrollment_id})

(* ------------------------------------------------------------------ *)
(* Student management                                                  *)
(* ------------------------------------------------------------------ *)
new_student_id(count) == count + STUDENT_ID_OFFSET

(* a record left inactive when its email fails the check *)
NewStudent_checked(name, email, phone) ==
    [student_id |-> new_student_id(student_count), name |-> name,
     email |-> email, phone |-> phone,
     is_active |-> IF is_valid_email(email) THEN 1 ELSE 0]

NewStudent(name, email, phone) ==
    [student_id |-> new_student_id(student_count), name |-> name,
     email |-> email, phone |-> phone, is_active |-> 1]

(* the log after the two advisory checks of add_student *)
AdvisoryLog(lg, email, phone) ==
    LET l1 == IF ~is_valid_email(email)
              THEN log_operation(lg, LOG_WARNING, "Add Student",
                                 Details("Invalid email format", "", <<>>))
              ELSE lg
    IN  IF ~is_valid_phone(phone)
        THEN log_operation(l1, LOG_WARNING, "Add Student",
                           Details("Invalid phone format", "", <<>>))
        ELSE l1

add_student(name, email, phone) ==
    /\ pc = "menu"
    /\ IF student_count >= MAX_STUDENTS
       THEN /\ system_log' = log_operation(system_log, LOG_ERROR, "Add Student",
                                Details("Maximum student limit exceeded", "", <<>>))
            /\ out' = Out("add_student", 0, "Error: Maximum student limit reached!", <<>>)
            /\ UNCHANGED students
       ELSE LET st == NewStudent(name, email, phone)
            IN  /\ students' = Append(students, st)
                /\ system_log' = log_operation(AdvisoryLog(system_log, email, phone),
                                    LOG_SUCCESS, "Add Student",
                                    Details("Added student", name, <<st.student_id>>))
                /\ out' = Out("add_student", 1, "Student added successfully",
                              <<Line("ID", st.student_id)>>)
    /\ UNCHANGED <<courses, enrollments, pc>>

(* ------------------------------------------------------------------ *)
(* Course management                                                   *)
(* ------------------------------------------------------------------ *)
(* the student offset copied into the course identifier *)
new_course_id_copied(count) == count + STUDENT_ID_OFFSET

new_course_id(count) == count + COURSE_ID_OFFSET

NewCourse(code, credits, max_capacity) ==
    [course_id |-> new_course_id(course_count), course_code |-> code,
     credits |-> credits, max_capacity |-> max_capacity, current_enrollment |-> 0]

add_course(code, credits, max_capacity) ==
    /\ pc = "menu"
    /\ IF course_count >= MAX_COURSES
       THEN /\ system_log' = log_operation(system_log, LOG_ERROR, "Add Course",
                                Details("Maximum course limit exceeded", "", <<>>))
            /\ out' = Out("add_course", 0, "Error: Maximum course limit reached!", <<>>)
            /\ UNCHANGED courses
       ELSE LET c == NewCourse(code, credits, max_capacity)
            IN  /\ courses' = Append(courses, c)
                /\ system_log' = log_operation(system_log, LOG_SUCCESS, "Add Course",
                                    Details("Added course", code, <<>>))
                /\ out' = Out("add_course", 1, "Course added successfully",
                              <<Line("ID", c.course_id)>>)
    /\ UNCHANGED <<students, enrollments, pc>>

(* ------------------------------------------------------------------ *)
(* Enrollment management                                               *)
(* ------------------------------------------------------------------ *)
new_enrollment_id(count) == count + ENROLLMENT_ID_OFFSET

(* > where the source has >= *)
CourseFull_strict(c) == c.current_enrollment > c.max_capacity

(* the capacity check on a course record *)
CourseFull(c) == c.current_enrollment >= c.max_capacity

(* a duplicate check that looks at pending enrollments only *)
IsDuplicate_pending(e, student_id, course_id) ==
    /\ e.student_id = student_id
    /\ e.course_id = course_id
    /\ e.status = STATUS_PENDING

(* the duplicate check on one enrollment record *)
IsDuplicate(e, student_id, course_id) ==
    /\ e.student_id = student_id
    /\ e.course_id = course_id
    /\ e.status # STATUS_DROPPED

(* The checks of enroll_student_in_course in the order of the source;  *)
(* the result is the console line of the first check that fails.       *)
EnrollOutcome(student_id, course_id) ==
    IF enrollment_count >= MAX_ENROLLMENTS
    THEN "Error: Maximum enrollment limit reached!"
    ELSE IF FindActiveStudent(student_id) = -1
    THEN "Error: Student not found!"
    ELSE IF FindCourse(course_id) = -1
    THEN "Error: Course not found!"
    ELSE IF CourseFull(courses[FindCourse(course_id) + 1])
    THEN "Error: Course is at maximum capacity!"
    ELSE IF \E i \in 1..enrollment_count : IsDuplicate(enrollments[i], student_id, course_id)
    THEN "Error: Student is already enrolled in this course!"
    ELSE "Student successfully enrolled in course!"

EnrollSucceeds(outcome) == outcome = "Student successfully enrolled in course!"

(* the log_operation call that goes with each console line *)
EnrollLog(lg, outcome, student_id, course_id) ==
    CASE outcome = "Error: Maximum enrollment limit reached!" ->
           log_operation(lg, LOG_ERROR, "Enrollment",
                         Details("Maximum enrollment limit exceeded", "", <<>>))
      [] outcome = "Error: Student not found!" ->
           log_operation(lg, LOG_ERROR, "Enrollment", Details("Student not found", "", <<>>))
      [] outcome = "Error: Course not found!" ->
           log_operation(lg, LOG_ERROR, "Enrollment", Details("Course not found", "", <<>>))
      [] outcome = "Error: Course is at maximum capacity!" ->
           log_operation(lg, LOG_ERROR, "Enrollment",
                         Details("Course at maximum capacity", "", <<>>))
      [] outcome = "Error: Student is already enrolled in this course!" ->
           log_operation(lg, LOG_WARNING, "Enrollment",
                         Details("Duplicate enrollment attempt", "", <<>>))
      [] OTHER ->
           log_operation(lg, LOG_SUCCESS, "Enrollment",
                         Details("Enrolled student in course", "", <<student_id, course_id>>))

(* a new enrollment created as active instead of pending *)
NewEnrollment_active(student_id, course_id) ==
    [enrollment_id |-> new_enrollment_id(enrollment_count),
     student_id |-> student_id, course_id |-> course_id,
     grade |-> 0, letter_grade |-> "-", credit_points |-> 0,
     status |-> 1]

NewEnrollment(student_id, course_id) ==
    [enrollment_id |-> new_enrollment_id(enrollment_count),
     student_id |-> student_id, course_id |-> course_id,
     grade |-> 0, letter_grade |-> "-", credit_points |-> 0,
     status |-> STATUS_PENDING]

(* the increment applied to the first course of the table *)
CoursesAfterEnroll_first(outcome, course_index) ==
    IF EnrollSucceeds(outcome)
    THEN [courses EXCEPT ![1].current_enrollment = @ + 1]
    ELSE courses

(* the increment placed before the duplicate check *)
CoursesAfterEnroll_early(outcome, course_index) ==
    IF EnrollSucceeds(outcome)
       \/ outcome = "Error: Student is already enrolled in this course!"
    THEN [courses EXCEPT ![course_index + 1].current_enrollment = @ + 1]
    ELSE courses

(* courses[course_index].current_enrollment++ sits after every check *)
CoursesAfterEnroll(outcome, course_index) ==
    IF EnrollSucceeds(outcome)
    THEN [courses EXCEPT ![course_index + 1].current_enrollment = @ + 1]
    ELSE courses

EnrollmentsAfterEnroll(outcome, student_id, course_id) ==
    IF EnrollSucceeds(outcome)
    THEN Append(enrollments, NewEnrollment(student_id, course_id))
    ELSE enrollments

enroll_student_in_course(student_id, course_id) ==
    LET outcome == EnrollOutcome(student_id, course_id)
    IN  /\ pc = "menu"
        /\ enrollments' = EnrollmentsAfterEnroll(outcome, student_id, course_id)
        /\ courses' = CoursesAfterEnroll(outcome, FindCourse(course_id))
        /\ system_log' = EnrollLog(system_log, outcome, student_id, course_id)
        /\ out' = IF EnrollSucceeds(outcome)
                  THEN Out("enroll_student_in_course", 1, outcome,
                           <<Line("Enrollment ID", new_enrollment_id(enrollment_count))>>)
                  ELSE Out("enroll_student_in_course", 0, outcome, <<>>)
        /\ UNCHANGED <<students, pc>>

(* ------------------------------------------------------------------ *)
(* Grade management                                                    *)
(* ------------------------------------------------------------------ *)
(* a range check that refuses the upper end *)
GradeOutOfRange_open(grade) ==
    FLt(grade, ToFloat(MIN_GRADE)) \/ FGe(grade, ToFloat(MAX_GRADE))

GradeOutOfRange(grade) ==
    FLt(grade, ToFloat(MIN_GRADE)) \/ FGt(grade, ToFloat(MAX_GRADE))

(* a scan that passes over enrollments that are already completed *)
GradeOutcome_once(enrollment_id, grade) ==
    IF GradeOutOfRange(grade)
    THEN "Error: Grade must be between 0 and 100!"
    ELSE IF \/ FindEnrollment(enrollment_id) = -1
            \/ enrollments[FindEnrollment(enrollment_id) + 1].status = STATUS_COMPLETED
    THEN "Error: Enrollment not found!"
    ELSE "Grade recorded successfully!"

(* the range check comes before the scan for the enrollment *)
GradeOutcome(enrollment_id, grade) ==
    IF GradeOutOfRange(grade)
    THEN "Error: Grade must be between 0 and 100!"
    ELSE IF FindEnrollment(enrollment_id) = -1
    THEN "Error: Enrollment not found!"
    ELSE "Grade recorded successfully!"

GradeSucceeds(outcome) == outcome = "Grade recorded successfully!"

GradeLog(lg, outcome, enrollment_id, grade) ==
    CASE outcome = "Error: Grade must be between 0 and 100!" ->
           log_operation(lg, LOG_ERROR, "Record Grade", Details("Invalid grade value", "", <<>>))
      [] outcome = "Error: Enrollment not found!" ->
           log_operation(lg, LOG_ERROR, "Record Grade", Details("Enrollment not found", "", <<>>))
      [] OTHER ->
           log_operation(lg, LOG_SUCCESS, "Record Grade",
                         Details("Recorded grade for enrollment", "", <<grade, enrollment_id>>))

Graded(e, grade) ==
    [e EXCEPT !.grade = grade,
              !.letter_grade = get_letter_grade(grade),
              !.credit_points = get_gpa_from_grade(get_letter_grade(grade)),
              !.status = STATUS_COMPLETED]

EnrollmentsAfterGrade(outcome, enrollment_id, grade) ==
    IF GradeSucceeds(outcome)
    THEN [enrollments EXCEPT ![FindEnrollment(enrollment_id) + 1] = Graded(@, grade)]
    ELSE enrollments

record_grade(enrollment_id, grade) ==
    LET outcome == GradeOutcome(enrollment_id, grade)
    IN  /\ pc = "menu"
        /\ enrollments' = EnrollmentsAfterGrade(outcome, enrollment_id, grade)
        /\ system_log' = GradeLog(system_log, outcome, enrollment_id, grade)
        /\ out' = IF GradeSucceeds(outcome)
                  THEN Out("record_grade", 1, outcome,
                           <<Line("Enrollment ID", enrollment_id),
                             Line("Grade", grade),
                             Line("GPA Points",
                                  get_gpa_from_grade(get_letter_grade(grade)))>>)
                  ELSE Out("record_grade", 0, outcome, <<>>)
        /\ UNCHANGED <<students, courses, pc>>

(* ------------------------------------------------------------------ *)
(* Arithmetic of the reports                                           *)
(* ------------------------------------------------------------------ *)
(* an accumulation loop: the sum of the terms, added in scan order *)
SumOver(terms) ==
    LET acc[i \in 0..Len(terms)] == IF i = 0 THEN 0 ELSE acc[i - 1] + terms[i]
    IN  acc[Len(terms)]

(* ------------------------------------------------------------------ *)
(* float arithmetic of the reports.  A float that is zero or more is   *)
(* the record [m, e] with value m * 2^e and m in 2^23 .. 2^24 - 1      *)
(* (24 significant bits), zero is [0, 0]; every operation rounds its   *)
(* exact result to the nearest such value, ties to the even m.         *)
(* ------------------------------------------------------------------ *)
F32Zero == [m |-> 0, e |-> 0]

F32NaN == [m |-> -1, e |-> 0]

F32IsNaN(x) == x.m < 0

(* the number of significant bits of n *)
RECURSIVE BitLength(_)
BitLength(n) == IF n <= 0 THEN 0 ELSE 1 + BitLength(n \div 2)

(* the float nearest to n * 2^e (+ something below one unit of n when   *)
(* sticky); n has 26 bits or more whenever sticky is TRUE               *)
F32Round(n, e, sticky) ==
    IF n = 0 THEN F32Zero
    ELSE LET b == BitLength(n) - 24
         IN  IF b <= 0 THEN [m |-> n * 2^(-b), e |-> e + b]
             ELSE LET q == n \div 2^b
                      rem == n % 2^b
                      half == 2^(b - 1)
                      up == rem > half \/ (rem = half /\ (sticky \/ q % 2 = 1))
                      r == IF up THEN q + 1 ELSE q
                  IN  IF r = 2^24 THEN [m |-> 2^23, e |-> e + b + 1]
                      ELSE [m |-> r, e |-> e + b]

(* (float) n for an int n >= 0 *)
F32FromInt(n) == F32Round(n, 0, FALSE)

(* k more quotient bits of the long division by q: acc is the quotient *)
(* so far and r the remainder                                          *)
RECURSIVE DivBits(_, _, _, _)
DivBits(acc, r, q, k) ==
    IF k = 0 THEN [acc |-> acc, r |-> r]
    ELSE IF 2 * r >= q THEN DivBits(2 * acc + 1, 2 * r - q, q, k - 1)
    ELSE DivBits(2 * acc, 2 * r, q, k - 1)

(* x / y for y > 0 (no report divides by zero: the divisors are counts *)
(* and capacities tested > 0)                                          *)
F32Div(x, y) ==
    IF F32IsNaN(x) \/ F32IsNaN(y) \/ y.m = 0 THEN F32NaN
    ELSE IF x.m = 0 THEN F32Zero
    ELSE LET d == DivBits(x.m \div y.m, x.m % y.m, y.m, 26)
         IN  F32Round(d.acc, x.e - y.e - 26, d.r # 0)

(* x + y *)
F32Add(x, y) ==
    IF F32IsNaN(x) \/ F32IsNaN(y) THEN F32NaN
    ELSE IF x.m = 0 THEN y
    ELSE IF y.m = 0 THEN x
    ELSE LET hi == IF x.e >= y.e THEN x ELSE y
             lo == IF x.e >= y.e THEN y ELSE x
             d == hi.e - lo.e
             low == IF d > 27 THEN 0 ELSE (lo.m * 8) \div 2^d
             lost == IF d > 27 THEN TRUE ELSE (lo.m * 8) % 2^d # 0
         IN  F32Round(hi.m * 8 + low, hi.e - 3, lost)

(* x * k for an int constant 0 < k < 128 *)
F32MulInt(x, k) ==
    IF F32IsNaN(x) THEN F32NaN ELSE F32Round(x.m * k, x.e, FALSE)

(* the float read by scanf("%f") from a decimal with one digit after   *)
(* the point, given in tenths                                          *)
F32FromTenths(g) ==
    IF g = NaN THEN F32NaN ELSE F32Div(F32FromInt(g), F32FromInt(10))

(* printf("%.1f") (scale 10) or printf("%.2f") (scale 100) of x, as the *)
(* integer of tenths or hundredths printed: x * scale rounded to the    *)
(* nearest integer, an exact tie to the even one                        *)
PrintF(x, scale) ==
    IF F32IsNaN(x) THEN NaN
    ELSE LET n == x.m * scale
             s == -x.e
         IN  IF s <= 0 THEN n * 2^(-s)
             ELSE IF s >= 32 THEN 0
             ELSE IF s = 31 THEN (IF n > 2^30 THEN 1 ELSE 0)
             ELSE LET q == n \div 2^s
                      rem == n % 2^s
                      half == 2^(s - 1)
                  IN  IF rem > half \/ (rem = half /\ q % 2 = 1) THEN q + 1 ELSE q

(* the float quotient num / den of two ints (den > 0) printed with     *)
(* scale 10 or 100                                                     *)
Rounded(num, den, scale) ==
    IF num >= 0 THEN PrintF(F32Div(F32FromInt(num), F32FromInt(den)), scale)
    ELSE -PrintF(F32Div(F32FromInt(-num), F32FromInt(den)), scale)

(* ------------------------------------------------------------------ *)
(* calculate_student_gpa                                               *)
(* ------------------------------------------------------------------ *)
(* a scan that forgets the status test *)
CountsForStudent_anystatus(e, student_id) == e.student_id = student_id

(* the test of the accumulation loop on one enrollment record *)
CountsForStudent(e, student_id) ==
    e.student_id = student_id /\ e.status = STATUS_COMPLETED

calculate_student_gpa(student_id) ==
    LET Sel(e) == CountsForStudent(e, student_id)
        total_gpa == SumOver([i \in 1..enrollment_count |->
                                 IF Sel(enrollments[i])
                                 THEN enrollments[i].credit_points ELSE 0])
        completed_courses == Len(SelectSeq(enrollments, Sel))
    IN  /\ pc = "menu"
        /\ out' = IF FindStudent(student_id) = -1
                  THEN Out("calculate_student_gpa", 0, "Student not found.", <<>>)
                  ELSE IF completed_courses > 0
                  THEN Out("calculate_student_gpa", 0, "GPA",
                           <<Line("Student ID", student_id),
                             Line("Completed Courses", completed_courses),
                             Line("GPA", Rounded(total_gpa, completed_courses, 100))>>)
                  ELSE Out("calculate_student_gpa", 0, "GPA: N/A (No completed courses)",
                           <<Line("Student ID", student_id),
                             Line("Completed Courses", completed_courses)>>)
        /\ UNCHANGED <<students, courses, enrollments, system_log, pc>>

(* ------------------------------------------------------------------ *)
(* display_system_statistics                                           *)
(* ------------------------------------------------------------------ *)
(* total_enrollment_rate after the loop over the first i courses: the  *)
(* float sum of (float) current_enrollment / max_capacity over the     *)
(* courses that pass the max_capacity > 0 guard                        *)
TotalEnrollmentRate ==
    LET acc[i \in 0..course_count] ==
            IF i = 0 THEN F32Zero
            ELSE IF courses[i].max_capacity > 0
            THEN F32Add(acc[i - 1],
                        F32Div(F32FromInt(courses[i].current_enrollment),
                               F32FromInt(courses[i].max_capacity)))
            ELSE acc[i - 1]
    IN  acc[course_count]

(* (total_enrollment_rate / course_count) * 100 printed with one       *)
(* decimal: the divisor is the number of all courses                   *)
AverageEnrollmentRate ==
    PrintF(F32MulInt(F32Div(TotalEnrollmentRate, F32FromInt(course_count)), 100), 10)

(* a scan that counts every enrollment *)
CountsForSystem_all(e) == e.status = e.status

(* the test of the GPA loop on one enrollment record *)
CountsForSystem(e) == e.status = STATUS_COMPLETED

display_system_statistics ==
    LET Sel(e) == CountsForSystem(e)
        total_gpa == SumOver([i \in 1..enrollment_count |->
                                 IF Sel(enrollments[i])
                                 THEN enrollments[i].credit_points ELSE 0])
        completed_enrollments == Len(SelectSeq(enrollments, Sel))
    IN  /\ pc = "menu"
        /\ out' = Out("display_system_statistics", 0, "SYSTEM STATISTICS",
                      <<Line("Total Students (Active)", student_count),
                        Line("Total Courses", course_count),
                        Line("Total Enrollments", enrollment_count),
                        Line("Total Log Entries", log_entry_count)>>
                      \o (IF completed_enrollments > 0
                          THEN <<Line("Average GPA (System)",
                                      Rounded(total_gpa, completed_enrollments, 100))>>
                          ELSE <<>>)
                      \o (IF course_count > 0
                          THEN <<Line("Average Enrollment Rate", AverageEnrollmentRate)>>
                          ELSE <<>>))
        /\ UNCHANGED <<students, courses, enrollments, system_log, pc>>

(* ------------------------------------------------------------------ *)
(* generate_class_statistics                                           *)
(* ------------------------------------------------------------------ *)
FSub(a, b) == IF a = NaN \/ b = NaN THEN NaN ELSE a - b

(* total_grade, highest_grade, lowest_grade and students_graded after the *)
(* scan of the enrollments of course_id                                   *)
ClassScan(course_id) ==
    LET acc[i \in 0..enrollment_count] ==
            IF i = 0
            THEN [total_grade |-> F32Zero, highest_grade |-> 0,
                  lowest_grade |-> ToFloat(100), students_graded |-> 0]
            ELSE LET a == acc[i - 1]
                     e == enrollments[i]
                 IN  IF e.course_id = course_id /\ e.status = STATUS_COMPLETED
                     THEN [total_grade |-> F32Add(a.total_grade, F32FromTenths(e.grade)),
                           highest_grade |-> IF FGt(e.grade, a.highest_grade)
                                             THEN e.grade ELSE a.highest_grade,
                           lowest_grade |-> IF FLt(e.grade, a.lowest_grade)
                                            THEN e.grade ELSE a.lowest_grade,
                           students_graded |-> a.students_graded + 1]
                     ELSE a
    IN  acc[enrollment_count]

(* a float in tenths printed with two decimals *)
Printed2(f) == IF f = NaN THEN NaN ELSE f * 10

(* total_grade / students_graded printed with two decimals *)
AverageGrade(total_grade, students_graded) ==
    PrintF(F32Div(total_grade, F32FromInt(students_graded)), 100)

generate_class_statistics(course_id) ==
    LET course_index == FindCourse(course_id)
        r == ClassScan(course_id)
    IN  /\ pc = "menu"
        /\ out' = IF course_index = -1
                  THEN Out("generate_class_statistics", 0, "Course not found.", <<>>)
                  ELSE IF r.students_graded > 0
                  THEN Out("generate_class_statistics", 0, "CLASS STATISTICS",
                           <<Line("Course ID", course_id),
                             Line("Total Enrollment",
                                  courses[course_index + 1].current_enrollment),
                             Line("Students Graded", r.students_graded),
                             Line("Average Grade",
                                  AverageGrade(r.total_grade, r.students_graded)),
                             Line("Highest Grade", Printed2(r.highest_grade)),
                             Line("Lowest Grade", Printed2(r.lowest_grade)),
                             Line("Grade Range",
                                  Printed2(FSub(r.highest_grade, r.lowest_grade)))>>)
                  ELSE Out("generate_class_statistics", 0,
                           "No grades recorded for this course.",
                           <<Line("Course ID", course_id),
                             Line("Total Enrollment",
                                  courses[course_index + 1].current_enrollment),
                             Line("Students Graded", r.students_graded)>>)
        /\ UNCHANGED <<students, courses, enrollments, system_log, pc>>

(* ------------------------------------------------------------------ *)
(* Display operations                                                  *)
(* ------------------------------------------------------------------ *)
(* one line per record of seq, in table order, showing its identifier *)
StudentLines(seq) == [i \in 1..Len(seq) |-> Line("ID", seq[i].student_id)]

CourseLines(seq) == [i \in 1..Len(seq) |-> Line("ID", seq[i].course_id)]

EnrollmentLines(seq, label) == [i \in 1..Len(seq) |-> Line(label, seq[i].enrollment_id)]

LogLines(seq) == [i \in 1..Len(seq) |-> Line("ID", seq[i].log_id)]

IsActive(s) == s.is_active # 0

display_all_students ==
    /\ pc = "menu"
    /\ out' = IF student_count = 0
              THEN Out("display_all_students", 0, "No students in the system.", <<>>)
              ELSE Out("display_all_students", 0, "Total Active Students",
                       StudentLines(SelectSeq(students, IsActive))
                       \o <<Line("Total Active Students", student_count)>>)
    /\ UNCHANGED <<students, courses, enrollments, system_log, pc>>

display_student_details(student_id) ==
    /\ pc = "menu"
    /\ IF FindActiveStudent(student_id) # -1
       THEN /\ out' = Out("display_student_details", 0, "STUDENT DETAILS",
                          <<Line("Student ID", student_id)>>)
            /\ UNCHANGED system_log
       ELSE /\ out' = Out("display_student_details", 0, "Student not found.", <<>>)
            /\ system_log' = log_operation(system_log, LOG_WARNING, "Display Student",
                                Details("Student ID not found", "", <<>>))
    /\ UNCHANGED <<students, courses, enrollments, pc>>

(* strstr(hay, needle) # NULL *)
IsSubstring(needle, hay) ==
    \E k \in 0..(Len(hay) - Len(needle)) :
        \A i \in 1..Len(needle) : hay[k + i] = needle[i]

search_student_by_name(search_name) ==
    LET Sel(s) == s.is_active # 0 /\ IsSubstring(search_name, s.name)
        found == Len(SelectSeq(students, Sel))
    IN  /\ pc = "menu"
        /\ out' = IF found = 0
                  THEN Out("search_student_by_name", 0, "No students found matching", <<>>)
                  ELSE Out("search_student_by_name", 0, "Found student(s)",
                           StudentLines(SelectSeq(students, Sel))
                           \o <<Line("Found", found)>>)
        /\ UNCHANGED <<students, courses, enrollments, system_log, pc>>

display_all_courses ==
    /\ pc = "menu"
    /\ out' = IF course_count = 0
              THEN Out("display_all_courses", 0, "No courses in the system.", <<>>)
              ELSE Out("display_all_courses", 0, "Total Courses",
                       CourseLines(courses)
                       \o <<Line("Total Courses", course_count)>>)
    /\ UNCHANGED <<students, courses, enrollments, system_log, pc>>

display_course_details(course_id) ==
    /\ pc = "menu"
    /\ IF FindCourse(course_id) # -1
       THEN /\ out' = Out("display_course_details", 0, "COURSE DETAILS",
                          <<Line("Course ID", course_id),
                            Line("Available Seats",
                                 courses[FindCourse(course_id) + 1].max_capacity
                                 - courses[FindCourse(course_id) + 1].current_enrollment)>>)
            /\ UNCHANGED system_log
       ELSE /\ out' = Out("display_course_details", 0, "Course not found.", <<>>)
            /\ system_log' = log_operation(system_log, LOG_WARNING, "Display Course",
                                Details("Course ID not found", "", <<>>))
    /\ UNCHANGED <<students, courses, enrollments, pc>>

view_student_enrollments(student_id) ==
    LET Sel(e) == e.student_id = student_id
        enrolled == Len(SelectSeq(enrollments, Sel))
    IN  /\ pc = "menu"
        /\ out' = IF FindStudent(student_id) = -1
                  THEN Out("view_student_enrollments", 0, "Student not found.", <<>>)
                  ELSE IF enrolled = 0
                  THEN Out("view_student_enrollments", 0, "Student has no enrollments.", <<>>)
                  ELSE Out("view_student_enrollments", 0, "Total Enrollments",
                           EnrollmentLines(SelectSeq(enrollments, Sel), "Enr.ID")
                           \o <<Line("Total Enrollments", enrolled)>>)
        /\ UNCHANGED <<students, courses, enrollments, system_log, pc>>

display_system_log ==
    /\ pc = "menu"
    /\ out' = IF log_entry_count = 0
              THEN Out("display_system_log", 0, "No log entries.", <<>>)
              ELSE Out("display_system_log", 0, "Total Log Entries",
                       LogLines(system_log)
                       \o <<Line("Total Log Entries", log_entry_count)>>)
    /\ UNCHANGED <<students, courses, enrollments, system_log, pc>>

(* ------------------------------------------------------------------ *)
(* export_data_to_file; opened is the result of fopen                  *)
(* ------------------------------------------------------------------ *)
(* an enrollment loop that stops one record early *)
ExportFile_short ==
    <<Line("STUDENTS", 0), Line("Total Students", student_count)>>
    \o StudentLines(students)
    \o <<Line("COURSES", 0), Line("Total Courses", course_count)>>
    \o CourseLines(courses)
    \o <<Line("ENROLLMENTS", 0), Line("Total Enrollments", enrollment_count)>>
    \o EnrollmentLines(SubSeq(enrollments, 1, enrollment_count - 1), "Enrollment ID")

ExportFile ==
    <<Line("STUDENTS", 0), Line("Total Students", student_count)>>
    \o StudentLines(students)
    \o <<Line("COURSES", 0), Line("Total Courses", course_count)>>
    \o CourseLines(courses)
    \o <<Line("ENROLLMENTS", 0), Line("Total Enrollments", enrollment_count)>>
    \o EnrollmentLines(enrollments, "Enrollment ID")

export_data_to_file(opened) ==
    /\ pc = "menu"
    /\ IF ~opened
       THEN /\ out' = Out("export_data_to_file", 0,
                          "Error: Could not create export file!", <<>>)
            /\ system_log' = log_operation(system_log, LOG_ERROR, "Export Data",
                                Details("Failed to create file", "", <<>>))
       ELSE /\ out' = Out("export_data_to_file", 0, "Data exported successfully",
                          ExportFile)
            /\ system_log' = log_operation(system_log, LOG_SUCCESS, "Export Data",
                                Details("Data exported to file", "", <<>>))
    /\ UNCHANGED <<students, courses, enrollments, pc>>

(* ------------------------------------------------------------------ *)
(* main: the menu loop                                                 *)
(* ------------------------------------------------------------------ *)
EXIT_CHOICE == 16

(* scanf("%d", &choice) != 1 *)
invalid_input ==
    /\ pc = "menu"
    /\ system_log' = log_operation(system_log, LOG_WARNING, "Menu",
                        Details("Invalid input received", "", <<>>))
    /\ out' = Out("main", 0, "Invalid input. Please enter a number.", <<>>)
    /\ UNCHANGED <<students, courses, enrollments, pc>>

(* the default branch of the switch *)
invalid_choice(choice) ==
    /\ pc = "menu"
    /\ choice \notin 1..EXIT_CHOICE
    /\ system_log' = log_operation(system_log, LOG_WARNING, "Menu",
                        Details("Invalid choice selected", "", <<>>))
    /\ out' = Out("main", 0, "Invalid choice! Please select a valid option (1-16).", <<>>)
    /\ UNCHANGED <<students, courses, enrollments, pc>>

(* case 16 that breaks out of the switch instead of returning *)
exit_system_continue ==
    /\ pc = "menu"
    /\ system_log' = log_operation(system_log, LOG_INFO, "System Shutdown",
                        Details("System exited normally", "", <<>>))
    /\ out' = Out("main", 0, "System shutting down...", <<>>)
    /\ UNCHANGED <<students, courses, enrollments, pc>>

(* case 16: return EXIT_SUCCESS *)
exit_system ==
    /\ pc = "menu"
    /\ system_log' = log_operation(system_log, LOG_INFO, "System Shutdown",
                        Details("System exited normally", "", <<>>))
    /\ out' = Out("main", 0, "System shutting down...", <<>>)
    /\ pc' = "exit"
    /\ UNCHANGED <<students, courses, enrollments>>

(* ------------------------------------------------------------------ *)
(* Inputs                                                              *)
(* ------------------------------------------------------------------ *)
Names == { <<"A", "d", "a">> }

Needles == { <<"d", "a">>, <<"x">> }

ValidEmail == <<"a", "@", "b", ".", "c">>

Emails == { ValidEmail,
            <<"a", "b", ".", "c">>,
            <<"a", "@", "@", "b", ".", "c">>,
            <<"a", "@", "b">> }

ValidPhone == <<"5", "5", "5", "-", "1", "2", "3", " ", "4", "5", "6", "7">>

Phones == { ValidPhone,
            <<"5", "5", "5", "1", "2", "3", "4", "5", "6">>,
            <<"5", "5", "5", "1", "2", "3", "4", "5", "6", "x">> }

Codes == { "CS101" }

Credits == { 3 }

Capacities == { -1, 0, 1, 2 }

(* grades in tenths: -0.1, 90, 100.1 *)
Scores == { -1, 900, 1001 }

(* 0, 65, 90, 100 and NaN *)
ReportScores == { 0, 650, 900, 1000, NaN }

(* -0.1, the boundary grades, 59.9, 100.1 and NaN *)
BoundaryScores == { -1, 0, 599, 600, 700, 800, 900, 1000, 1001, NaN }

StudentIds == STUDENT_ID_OFFSET .. (STUDENT_ID_OFFSET + MAX_STUDENTS)

CourseIds == COURSE_ID_OFFSET .. (COURSE_ID_OFFSET + MAX_COURSES)

EnrollmentIds == ENROLLMENT_ID_OFFSET .. (ENROLLMENT_ID_OFFSET + MAX_ENROLLMENTS)

Choices == 0 .. (EXIT_CHOICE + 1)

(* the switch of main *)
menu(choice) ==
    \/ choice = 1 /\ \E n \in Names : add_student(n, ValidEmail, ValidPhone)
    \/ choice = 2 /\ display_all_students
    \/ choice = 3 /\ \E n \in Needles : search_student_by_name(n)
    \/ choice = 4 /\ \E id \in StudentIds : display_student_details(id)
    \/ choice = 5 /\ \E c \in Codes, cr \in Credits, cap \in Capacities : add_course(c, cr, cap)
    \/ choice = 6 /\ display_all_courses
    \/ choice = 7 /\ \E id \in CourseIds : display_course_details(id)
    \/ choice = 8 /\ \E s \in StudentIds, c \in CourseIds : enroll_student_in_course(s, c)
    \/ choice = 9 /\ \E id \in StudentIds : view_student_enrollments(id)
    \/ choice = 10 /\ \E id \in EnrollmentIds, g \in Scores : record_grade(id, g)
    \/ choice = 11 /\ \E id \in StudentIds : calculate_student_gpa(id)
    \/ choice = 12 /\ display_system_statistics
    \/ choice = 13 /\ \E id \in CourseIds : generate_class_statistics(id)
    \/ choice = 14 /\ display_system_log
    \/ choice = 15 /\ \E opened \in BOOLEAN : export_data_to_file(opened)
    \/ choice = EXIT_CHOICE /\ exit_system
    \/ invalid_choice(choice)

Init ==
    /\ students = <<>>
    /\ courses = <<>>
    /\ enrollments = <<>>
    /\ system_log = log_operation(<<>>, LOG_INFO, "System Init",
                                  Details("System started successfully", "", <<>>))
    /\ pc = "menu"
    /\ out = Out("main", 0, "**** READY ****", <<>>)

(* The whole program: every menu choice, with a compact set of inputs. *)
Next ==
    \/ invalid_input
    \/ \E choice \in Choices : menu(choice)

Spec == Init /\ [][Next]_vars

(* The same program driven through the registration, enrollment and    *)
(* grading choices only (1, 5, 8, 10), with every boundary grade.      *)
NextGrade ==
    \/ \E n \in Names : add_student(n, ValidEmail, ValidPhone)
    \/ \E c \in Codes, cr \in Credits : add_course(c, cr, 2)
    \/ \E s \in StudentIds, c \in CourseIds : enroll_student_in_course(s, c)
    \/ \E id \in EnrollmentIds, g \in BoundaryScores : record_grade(id, g)

SpecGrade == Init /\ [][NextGrade]_vars

(* Registration, enrollment and grading with grades of several letters *)
(* and the three reports (choices 1, 5, 8, 10, 11, 12, 13).            *)
NextReport ==
    \/ \E n \in Names : add_student(n, ValidEmail, ValidPhone)
    \/ \E c \in Codes, cr \in Credits : add_course(c, cr, 2)
    \/ \E s \in StudentIds, c \in CourseIds : enroll_student_in_course(s, c)
    \/ \E id \in EnrollmentIds, g \in ReportScores : record_grade(id, g)
    \/ \E id \in StudentIds : calculate_student_gpa(id)
    \/ display_system_statistics
    \/ \E id \in CourseIds : generate_class_statistics(id)

SpecReport == Init /\ [][NextReport]_vars

(* The registration choices only (1, 5), with every email and phone    *)
(* profile.                                                            *)
NextRegister ==
    \/ \E n \in Names, e \in Emails, p \in Phones : add_student(n, e, p)
    \/ \E c \in Codes, cr \in Credits : add_course(c, cr, 2)

SpecRegister == Init /\ [][NextRegister]_vars

(* ================================================================== *)
(* Properties                                                          *)
(* ================================================================== *)
HasActiveStudent(s) ==
    \E i \in 1..student_count : students[i].student_id = s /\ students[i].is_active = 1

HasCourse(c) == \E i \in 1..course_count : courses[i].course_id = c

(* the course records with identifier c (there is at most one) *)
CourseAt(c) == CHOOSE i \in 1..course_count : courses[i].course_id = c

HasLiveEnrollment(s, c) ==
    \E i \in 1..enrollment_count :
        /\ enrollments[i].student_id = s
        /\ enrollments[i].course_id = c
        /\ enrollments[i].status # 3

AtCapacity(c) ==
    /\ HasCourse(c)
    /\ courses[CourseAt(c)].current_enrollment = courses[CourseAt(c)].max_capacity

(* C1: every course in the Course table satisfies                      *)
(* 0 <= current_enrollment <= max_capacity, whatever integer was       *)
(* entered as its maximum capacity.                                    *)
C1_CapacityInvariant ==
    \A i \in 1..course_count :
        /\ 0 <= courses[i].current_enrollment
        /\ courses[i].current_enrollment <= courses[i].max_capacity

(* C2 as stated: enrolling an existing active student in an existing   *)
(* course whose current_enrollment equals max_capacity fails with the  *)
(* "course full" line and changes neither the courses nor the          *)
(* enrollments.                                                        *)
C2_FullAlwaysCourseFull ==
    [][out'.op = "enroll_student_in_course" =>
       \A s \in StudentIds, c \in CourseIds :
          (HasActiveStudent(s) /\ AtCapacity(c) /\ enroll_student_in_course(s, c))
          => /\ out'.ret = 0
             /\ out'.msg = "Error: Course is at maximum capacity!"
             /\ courses' = courses
             /\ enrollments' = enrollments]_vars

(* C2 amended: the same attempt fails and changes neither the courses  *)
(* nor the enrollments; the line is "course full" when the Enrollment  *)
(* table has room and "maximum enrollment limit" when it is full.      *)
C2_FullRejected ==
    [][out'.op = "enroll_student_in_course" =>
       \A s \in StudentIds, c \in CourseIds :
          (HasActiveStudent(s) /\ AtCapacity(c) /\ enroll_student_in_course(s, c))
          => /\ out'.ret = 0
             /\ out'.msg = IF enrollment_count < MAX_ENROLLMENTS
                           THEN "Error: Course is at maximum capacity!"
                           ELSE "Error: Maximum enrollment limit reached!"
             /\ courses' = courses
             /\ enrollments' = enrollments]_vars

(* a course with a positive capacity has filled up and a further       *)
(* enrollment was refused as "course full"                             *)
C2_Witness ==
    /\ out.op = "enroll_student_in_course"
    /\ out.msg = "Error: Course is at maximum capacity!"
    /\ \E i \in 1..course_count :
          /\ courses[i].max_capacity > 0
          /\ courses[i].current_enrollment = courses[i].max_capacity
    /\ student_count > 0

(* C3: for every (student, course) pair at most one Enrollment record  *)
(* with that pair has a status other than dropped.                     *)
C3_OneLiveEnrollmentPerPair ==
    \A i, j \in 1..enrollment_count :
        ( /\ i # j
          /\ enrollments[i].student_id = enrollments[j].student_id
          /\ enrollments[i].course_id = enrollments[j].course_id )
        => (enrollments[i].status = 3 \/ enrollments[j].status = 3)

(* a duplicate attempt was refused while a graded enrollment of the    *)
(* pair exists and the table had room for another record               *)
C3_Witness ==
    /\ out.msg = "Error: Student is already enrolled in this course!"
    /\ enrollment_count < MAX_ENROLLMENTS
    /\ \E i \in 1..enrollment_count : enrollments[i].status = 2

(* C4: once enroll(s, c) has succeeded (and nothing was dropped), any  *)
(* later enroll(s, c) fails with the duplicate line, for every course  *)
(* capacity.                                                           *)
C4_SecondEnrollIsDuplicate ==
    [][out'.op = "enroll_student_in_course" =>
       \A s \in StudentIds, c \in CourseIds :
          (HasLiveEnrollment(s, c) /\ enroll_student_in_course(s, c))
          => /\ out'.ret = 0
             /\ out'.msg = "Error: Student is already enrolled in this course!"]_vars

(* C5: a registration that adds a record gives it the identifier       *)
(* offset + count before (1001, 5001, 7001); identifiers within a      *)
(* table are pairwise distinct and a record keeps its identifier.      *)
C5_Identifiers ==
    [][ /\ student_count' # student_count
           => /\ student_count' = student_count + 1
              /\ students'[student_count'].student_id = 1001 + student_count
        /\ course_count' # course_count
           => /\ course_count' = course_count + 1
              /\ courses'[course_count'].course_id = 5001 + course_count
        /\ enrollment_count' # enrollment_count
           => /\ enrollment_count' = enrollment_count + 1
              /\ enrollments'[enrollment_count'].enrollment_id = 7001 + enrollment_count
        /\ \A i \in 1..student_count : students'[i].student_id = students[i].student_id
        /\ \A i \in 1..course_count : courses'[i].course_id = courses[i].course_id
        /\ \A i \in 1..enrollment_count :
              enrollments'[i].enrollment_id = enrollments[i].enrollment_id
        /\ \A i, j \in 1..student_count' :
              i # j => students'[i].student_id # students'[j].student_id
        /\ \A i, j \in 1..course_count' :
              i # j => courses'[i].course_id # courses'[j].course_id
        /\ \A i, j \in 1..enrollment_count' :
              i # j => enrollments'[i].enrollment_id # enrollments'[j].enrollment_id
      ]_vars

(* the first operation of the run failed (its error entry took the     *)
(* log's second slot), registrations succeeded after it, and the last  *)
(* enrollment attempt failed again                                     *)
C5_Witness ==
    /\ log_entry_count = 2
    /\ system_log[2].log_level = 3
    /\ student_count = 2
    /\ course_count = 2
    /\ enrollment_count = 2
    /\ out.op = "enroll_student_in_course"
    /\ out.ret = 0

(* the operations that return 1 on success and 0 on failure *)
IntOps == { "add_student", "add_course", "enroll_student_in_course", "record_grade" }

(* the last operation was a domain operation and it failed *)
Failed(o) ==
    \/ o.op \in IntOps /\ o.ret = 0
    \/ o.op = "calculate_student_gpa" /\ o.msg = "Student not found."
    \/ o.op = "generate_class_statistics" /\ o.msg = "Course not found."

(* C6: when a domain operation fails (table full, student, course or   *)
(* enrollment not found, course full, duplicate, invalid grade), the   *)
(* Student, Course and Enrollment tables and their counts are the same *)
(* after it as before it.                                              *)
C6_FailureChangesNothing ==
    [][Failed(out') => /\ students' = students
                       /\ courses' = courses
                       /\ enrollments' = enrollments]_vars

(* a duplicate enrollment was refused, which happens after the scans   *)
(* have found the student and the course                               *)
C6_Witness ==
    /\ out.op = "enroll_student_in_course"
    /\ out.ret = 0
    /\ out.msg = "Error: Student is already enrolled in this course!"
    /\ enrollment_count >= 1

(* C7: a successful enroll(s, c) appends exactly one Enrollment record *)
(* (s, c, pending, grade 0, letter '-', grade-point 0) and adds 1 to   *)
(* current_enrollment of course c; the other courses, the existing     *)
(* enrollments and the Student table are unchanged.                    *)
C7_EnrollEffect ==
    [][(out'.op = "enroll_student_in_course" /\ out'.ret = 1) =>
       \A s \in StudentIds, c \in CourseIds :
          enroll_student_in_course(s, c)
          => /\ enrollments' =
                   Append(enrollments,
                          [enrollment_id |-> 7001 + enrollment_count,
                           student_id |-> s, course_id |-> c,
                           grade |-> 0, letter_grade |-> "-",
                           credit_points |-> 0, status |-> 0])
             /\ course_count' = course_count
             /\ \A i \in 1..course_count :
                   courses'[i] =
                       IF courses[i].course_id = c
                       THEN [courses[i] EXCEPT
                               !.current_enrollment = courses[i].current_enrollment + 1]
                       ELSE courses[i]
             /\ students' = students]_vars

(* an enrollment succeeded while another course and an earlier         *)
(* enrollment existed                                                  *)
C7_Witness ==
    /\ out.op = "enroll_student_in_course"
    /\ out.ret = 1
    /\ course_count = 2
    /\ enrollment_count = 2

InRange(g) == g # NaN /\ 0 <= g /\ g <= 1000

HasEnrollment(id) == \E i \in 1..enrollment_count : enrollments[i].enrollment_id = id

EnrollmentAt(id) == CHOOSE i \in 1..enrollment_count : enrollments[i].enrollment_id = id

LetterOf(g) ==
    IF g >= 900 THEN "A"
    ELSE IF 800 <= g /\ g < 900 THEN "B"
    ELSE IF 700 <= g /\ g < 800 THEN "C"
    ELSE IF 600 <= g /\ g < 700 THEN "D"
    ELSE "F"

PointsOf(letter) ==
    IF letter = "A" THEN 4
    ELSE IF letter = "B" THEN 3
    ELSE IF letter = "C" THEN 2
    ELSE IF letter = "D" THEN 1
    ELSE 0

(* C8: a successful record-grade of g in [0,100] on an existing        *)
(* enrollment sets its grade to g, its letter to A (g >= 90),        *)
(* B (80 <= g < 90), C (70 <= g < 80), D (60 <= g < 70) or F, its      *)
(* grade-point to 4, 3, 2, 1, 0 and its status to completed; no other  *)
(* enrollment, no course and no student changes.                       *)
C8_GradeEffect ==
    [][(out'.op = "record_grade" /\ out'.ret = 1) =>
       \A id \in EnrollmentIds, g \in BoundaryScores :
          (InRange(g) /\ HasEnrollment(id) /\ record_grade(id, g))
          => /\ enrollment_count' = enrollment_count
             /\ \A i \in 1..enrollment_count :
                   enrollments'[i] =
                       IF i = EnrollmentAt(id)
                       THEN [enrollment_id |-> id,
                             student_id |-> enrollments[i].student_id,
                             course_id |-> enrollments[i].course_id,
                             grade |-> g,
                             letter_grade |-> LetterOf(g),
                             credit_points |-> PointsOf(LetterOf(g)),
                             status |-> 2]
                       ELSE enrollments[i]
             /\ courses' = courses
             /\ students' = students]_vars

(* 60 was recorded as D / 1 on one enrollment while the other          *)
(* enrollment holds 59.9 as F / 0                                      *)
C8_Witness ==
    /\ out.op = "record_grade"
    /\ out.ret = 1
    /\ enrollment_count = 2
    /\ \E i, j \in 1..enrollment_count :
          /\ enrollments[i].grade = 600
          /\ enrollments[i].letter_grade = "D"
          /\ enrollments[i].credit_points = 1
          /\ enrollments[j].grade = 599
          /\ enrollments[j].letter_grade = "F"
          /\ enrollments[j].credit_points = 0

(* C9: a grade below 0 or above 100 is refused as "invalid grade"      *)
(* whether or not the enrollment exists; a grade in [0,100] with an    *)
(* identifier that matches no enrollment is refused as "enrollment     *)
(* not found"; 0 and 100 are accepted.                                 *)
C9_GradeChecks ==
    [][out'.op = "record_grade" =>
       \A id \in EnrollmentIds, g \in BoundaryScores \ {NaN} :
          record_grade(id, g)
          => /\ (g < 0 \/ g > 1000)
                => (out'.ret = 0 /\ out'.msg = "Error: Grade must be between 0 and 100!")
             /\ (0 <= g /\ g <= 1000 /\ ~HasEnrollment(id))
                => (out'.ret = 0 /\ out'.msg = "Error: Enrollment not found!")
             /\ (g \in {0, 1000} /\ HasEnrollment(id))
                => (out'.ret = 1 /\ enrollments'[EnrollmentAt(id)].grade = g)]_vars

(* 100 was accepted on one enrollment and 0 on the other *)
C9_Witness ==
    /\ out.op = "record_grade"
    /\ out.ret = 1
    /\ \E i, j \in 1..enrollment_count :
          enrollments[i].grade = 1000 /\ enrollments[j].status = 2 /\ enrollments[j].grade = 0

(* the domain operations *)
DomainOps ==
    IntOps \cup { "calculate_student_gpa", "generate_class_statistics",
                  "display_system_statistics" }

(* C10: every invocation of a domain operation, successful or not,     *)
(* adds exactly one entry to the Operation Log while the log is not    *)
(* full.                                                               *)
C10_OneEntryPerOperation ==
    [][(out'.op \in DomainOps /\ log_entry_count < MAX_LOG_ENTRIES)
       => log_entry_count' = log_entry_count + 1]_vars

(* C11: the Operation Log never holds more than MAX_LOG_ENTRIES         *)
(* entries; no step removes or changes an entry (entry i keeps log id  *)
(* i, its level, label and detail); a step taken while the log is full *)
(* leaves the log as it is, and the operation that attempted the       *)
(* append still completes: a registration into a table with room adds  *)
(* its record and the menu loop goes on.                               *)
C11_LogAppendOnly ==
    [][ /\ log_entry_count <= MAX_LOG_ENTRIES
        /\ log_entry_count' <= MAX_LOG_ENTRIES
        /\ log_entry_count' >= log_entry_count
        /\ \A i \in 1..log_entry_count :
              /\ system_log'[i] = system_log[i]
              /\ system_log'[i].log_id = i
        /\ log_entry_count = MAX_LOG_ENTRIES
           => /\ system_log' = system_log
              /\ pc' \in {"menu", "exit"}
              /\ (out'.op = "add_student" /\ student_count < MAX_STUDENTS)
                 => (out'.ret = 1 /\ student_count' = student_count + 1)
              /\ (out'.op = "add_course" /\ course_count < MAX_COURSES)
                 => (out'.ret = 1 /\ course_count' = course_count + 1)
      ]_vars

(* the log is full and was already full when the last operation, a     *)
(* course registration that succeeded, tried to append its entry       *)
C11_Witness ==
    /\ log_entry_count = MAX_LOG_ENTRIES
    /\ out.op = "add_course"
    /\ out.ret = 1
    /\ course_count + student_count + 1 > MAX_LOG_ENTRIES
    /\ system_log[1].operation = "System Init"

EmailOk(e) == Cardinality({i \in 1..Len(e) : e[i] = "@"}) = 1 /\ \E i \in 1..Len(e) : e[i] = "."

PhoneOk(p) ==
    /\ Len(p) >= 10
    /\ \A i \in 1..Len(p) :
          p[i] \in {"0", "1", "2", "3", "4", "5", "6", "7", "8", "9", "-", " "}

(* the step appended a warning entry with this text *)
WarningLogged(text) ==
    \E i \in (log_entry_count + 1)..log_entry_count' :
        /\ system_log'[i].log_level = 2
        /\ system_log'[i].details.text = text

(* the effect of a registration on its table, as C12 states it *)
RegisterEffect ==
    /\ out'.op = "add_student"
       => \A n \in Names, e \in Emails, p \in Phones :
             add_student(n, e, p)
             => /\ (out'.ret = 0) <=> (student_count >= MAX_STUDENTS)
                /\ student_count >= MAX_STUDENTS => students' = students
                /\ student_count < MAX_STUDENTS
                   => students' = Append(students,
                                         [student_id |-> 1001 + student_count,
                                          name |-> n, email |-> e, phone |-> p,
                                          is_active |-> 1])
    /\ out'.op = "add_course"
       => \A c \in Codes, cr \in Credits, cap \in Capacities :
             add_course(c, cr, cap)
             => /\ (out'.ret = 0) <=> (course_count >= MAX_COURSES)
                /\ course_count >= MAX_COURSES => courses' = courses
                /\ course_count < MAX_COURSES
                   => /\ course_count' = course_count + 1
                      /\ \A i \in 1..course_count : courses'[i] = courses[i]
                      /\ courses'[course_count'].max_capacity = cap

(* C12 as stated: register student (course) fails if and only if its   *)
(* table is full and then adds nothing; otherwise it adds exactly one  *)
(* record, active, even if the email or phone fails validation, and in *)
(* that case a warning is logged.                                      *)
C12_RegisterAlwaysWarns ==
    [][ /\ RegisterEffect
        /\ (out'.op = "add_student" /\ out'.ret = 1)
           => \A n \in Names, e \in Emails, p \in Phones :
                 add_student(n, e, p)
                 => /\ ~EmailOk(e) => WarningLogged("Invalid email format")
                    /\ ~PhoneOk(p) => WarningLogged("Invalid phone format")
      ]_vars

(* the warnings a registration with this email and phone asks for, in  *)
(* the order of the checks                                             *)
WarningsDue(e, p) ==
    (IF EmailOk(e) THEN <<>> ELSE <<"Invalid email format">>)
    \o (IF PhoneOk(p) THEN <<>> ELSE <<"Invalid phone format">>)

(* C12 amended: the same, except that each warning is logged only      *)
(* while the Operation Log has room: the warnings take the next free   *)
(* slots of the log in the order email, phone, and a warning for which *)
(* no slot is left is dropped (the record is still created).           *)
C12_RegisterWarnsWhileRoom ==
    [][ /\ RegisterEffect
        /\ (out'.op = "add_student" /\ out'.ret = 1)
           => \A n \in Names, e \in Emails, p \in Phones :
                 add_student(n, e, p)
                 => /\ \A k \in 1..Len(WarningsDue(e, p)) :
                          IF log_entry_count + k <= MAX_LOG_ENTRIES
                          THEN /\ log_entry_count' >= log_entry_count + k
                               /\ system_log'[log_entry_count + k].log_level = 2
                               /\ system_log'[log_entry_count + k].operation = "Add Student"
                               /\ system_log'[log_entry_count + k].details.text
                                     = WarningsDue(e, p)[k]
                          ELSE ~WarningLogged(WarningsDue(e, p)[k])
                    /\ \A i \in 1..log_entry_count : system_log'[i] = system_log[i]
      ]_vars

(* a student whose email and phone both fail validation was added as   *)
(* an active record and the email warning is the last entry of the log *)
C12_Witness ==
    /\ out.op = "add_student"
    /\ out.ret = 1
    /\ ~EmailOk(students[student_count].email)
    /\ ~PhoneOk(students[student_count].phone)
    /\ students[student_count].is_active = 1
    /\ \E i \in 2..log_entry_count :
          /\ system_log[i].log_level = 2
          /\ system_log[i].details.text = "Invalid email format"

HasStudent(s) == \E i \in 1..student_count : students[i].student_id = s

(* the sum of the grade points of the enrollments at the positions S *)
RECURSIVE PointsSum(_)
PointsSum(S) ==
    IF S = {} THEN 0
    ELSE LET i == CHOOSE x \in S : TRUE
         IN  enrollments[i].credit_points + PointsSum(S \ {i})

(* v is sum / n at the printed precision: scale is 100 for two decimals *)
IsMean(v, sum, n, scale) ==
    /\ 2 * (v * n - scale * sum) <= n
    /\ 2 * (scale * sum - v * n) <= n

(* the positions of the completed enrollments of student s *)
CompletedOf(s) ==
    {i \in 1..enrollment_count :
        enrollments[i].student_id = s /\ enrollments[i].status = 2}

(* the values printed under the label *)
Shown(o, label) == {o.val[k].value : k \in {j \in 1..Len(o.val) : o.val[j].label = label}}

(* C13: compute student GPA for s reports "student not found" when no  *)
(* student has identifier s; otherwise the mean of the grade points of *)
(* exactly the completed enrollments of s, and "not applicable" with   *)
(* no figure when s has none; pending enrollments and enrollments of   *)
(* other students do not contribute.                                   *)
C13_StudentGpa ==
    [][out'.op = "calculate_student_gpa" =>
       \A s \in StudentIds :
          calculate_student_gpa(s)
          => IF ~HasStudent(s)
             THEN out'.msg = "Student not found." /\ out'.val = <<>>
             ELSE IF CompletedOf(s) = {}
             THEN /\ out'.msg = "GPA: N/A (No completed courses)"
                  /\ Shown(out', "GPA") = {}
             ELSE /\ Shown(out', "Completed Courses") = {Cardinality(CompletedOf(s))}
                  /\ \E v \in Shown(out', "GPA") :
                        /\ Shown(out', "GPA") = {v}
                        /\ IsMean(v, PointsSum(CompletedOf(s)),
                                  Cardinality(CompletedOf(s)), 100)]_vars

(* the GPA of student 1001 was reported from one completed enrollment  *)
(* (a D, 1 point) while the other enrollment, graded A, belongs to     *)
(* another student                                                     *)
C13_Witness ==
    /\ out.op = "calculate_student_gpa"
    /\ Shown(out, "Student ID") = {1001}
    /\ Shown(out, "GPA") = {100}
    /\ \E i, j \in 1..enrollment_count :
          /\ enrollments[i].student_id = 1001
          /\ enrollments[i].credit_points = 1
          /\ enrollments[j].student_id = 1002
          /\ enrollments[j].credit_points = 4

(* the positions of all completed enrollments *)
CompletedAll == {i \in 1..enrollment_count : enrollments[i].status = 2}

(* C14: the system GPA average shown by compute system statistics is   *)
(* the sum of the grade points of the completed enrollments divided by *)
(* their number; a pending enrollment adds to neither, and no average  *)
(* is shown when no enrollment is completed.                           *)
C14_SystemGpa ==
    [][(out'.op = "display_system_statistics" /\ display_system_statistics) =>
       IF CompletedAll = {}
       THEN Shown(out', "Average GPA (System)") = {}
       ELSE \E v \in Shown(out', "Average GPA (System)") :
               /\ Shown(out', "Average GPA (System)") = {v}
               /\ IsMean(v, PointsSum(CompletedAll), Cardinality(CompletedAll), 100)]_vars

(* the statistics were shown with one enrollment graded A and the      *)
(* other still pending: the average is 4.00, not 2.00                  *)
C14_Witness ==
    /\ out.op = "display_system_statistics"
    /\ Shown(out, "Average GPA (System)") = {400}
    /\ \E i, j \in 1..enrollment_count :
          /\ enrollments[i].status = 2
          /\ enrollments[i].credit_points = 4
          /\ enrollments[j].status = 0

(* the positions of the courses with a capacity above zero *)
WithCapacity == {i \in 1..course_count : courses[i].max_capacity > 0}

(* the product of the capacities of the courses at the positions S *)
RECURSIVE CapacityProduct(_)
CapacityProduct(S) ==
    IF S = {} THEN 1
    ELSE LET i == CHOOSE x \in S : TRUE
         IN  courses[i].max_capacity * CapacityProduct(S \ {i})

(* the sum of current_enrollment / max_capacity over the positions S,  *)
(* as a numerator over the denominator d (a multiple of each capacity) *)
RECURSIVE RateSum(_, _)
RateSum(S, d) ==
    IF S = {} THEN 0
    ELSE LET i == CHOOSE x \in S : TRUE
         IN  courses[i].current_enrollment * (d \div courses[i].max_capacity)
             + RateSum(S \ {i}, d)

(* C15: the average enrollment rate shown by compute system statistics *)
(* is the mean of current_enrollment / max_capacity over the courses   *)
(* with max_capacity > 0 only (as a percentage with one decimal): a    *)
(* course with zero capacity adds nothing to the sum and is not        *)
(* counted in the divisor.  Stated for Course tables whose capacities  *)
(* are zero or more, with at least one above zero.                     *)
C15_RateOverCoursesWithCapacity ==
    [][(out'.op = "display_system_statistics" /\ display_system_statistics
        /\ WithCapacity # {}
        /\ \A i \in 1..course_count : courses[i].max_capacity >= 0) =>
       \E v \in Shown(out', "Average Enrollment Rate") :
          /\ Shown(out', "Average Enrollment Rate") = {v}
          /\ IsMean(v, RateSum(WithCapacity, CapacityProduct(WithCapacity)),
                    CapacityProduct(WithCapacity) * Cardinality(WithCapacity), 1000)]_vars

(* the positions of the completed enrollments of course c *)
GradedIn(c) ==
    {i \in 1..enrollment_count :
        enrollments[i].course_id = c /\ enrollments[i].status = 2}

(* the sum of the grades (in tenths) of the enrollments at the positions S *)
RECURSIVE GradeSum(_)
GradeSum(S) ==
    IF S = {} THEN 0
    ELSE LET i == CHOOSE x \in S : TRUE
         IN  enrollments[i].grade + GradeSum(S \ {i})

(* what compute class statistics for course c has to show, the figures *)
(* in hundredths                                                       *)
ClassStatisticsOf(c, o) ==
    IF ~HasCourse(c)
    THEN o.msg = "Course not found." /\ o.val = <<>>
    ELSE IF GradedIn(c) = {}
    THEN /\ o.msg = "No grades recorded for this course."
         /\ Shown(o, "Students Graded") = {0}
         /\ Shown(o, "Average Grade") = {}
    ELSE \E hi, lo \in GradedIn(c) :
            \E avg \in Shown(o, "Average Grade") :
               /\ \A j \in GradedIn(c) :
                     /\ enrollments[lo].grade <= enrollments[j].grade
                     /\ enrollments[j].grade <= enrollments[hi].grade
               /\ Shown(o, "Students Graded") = {Cardinality(GradedIn(c))}
               /\ Shown(o, "Average Grade") = {avg}
               /\ IsMean(avg, GradeSum(GradedIn(c)), Cardinality(GradedIn(c)), 10)
               /\ Shown(o, "Highest Grade") = {10 * enrollments[hi].grade}
               /\ Shown(o, "Lowest Grade") = {10 * enrollments[lo].grade}
               /\ Shown(o, "Grade Range")
                     = {10 * enrollments[hi].grade - 10 * enrollments[lo].grade}
               /\ 10 * enrollments[lo].grade <= avg
               /\ avg <= 10 * enrollments[hi].grade

(* C16: compute class statistics for an existing course c shows, over  *)
(* exactly the completed enrollments of c, their count, the mean of    *)
(* their grades, the true maximum and minimum of their grades and      *)
(* range = maximum - minimum (so minimum <= mean <= maximum); it shows *)
(* "no grades" when the count is zero and "course not found" when no   *)
(* course has identifier c.                                            *)
C16_ClassStatistics ==
    [][out'.op = "generate_class_statistics" =>
       \A c \in CourseIds :
          generate_class_statistics(c) => ClassStatisticsOf(c, out')]_vars

(* the same for courses whose completed enrollments all hold a grade   *)
(* that is a number                                                    *)
C16_ClassStatisticsOfNumbers ==
    [][out'.op = "generate_class_statistics" =>
       \A c \in CourseIds :
          (generate_class_statistics(c)
           /\ \A j \in GradedIn(c) : enrollments[j].grade # NaN)
          => ClassStatisticsOf(c, out')]_vars

(* the positions in the file v of the lines with this label *)
LinesAt(v, label) == {k \in 1..Len(v) : v[k].label = label}

(* the values of the lines of v with this label that lie after         *)
(* position from and before position to, in file order                *)
RecordLines(v, from, to, label) ==
    LET Wanted(l) == l.label = label
        part == SelectSeq(SubSeq(v, from + 1, to - 1), Wanted)
    IN  [k \in 1..Len(part) |-> part[k].value]

(* C17: a successful export writes the sections in the order Students, *)
(* Courses, Enrollments; each section holds one line per record of its *)
(* table, in table order, so student_count, course_count and           *)
(* enrollment_count record lines; export changes no record and no      *)
(* count of the three tables.                                          *)
C17_Export ==
    [][out'.op = "export_data_to_file" =>
       /\ students' = students /\ courses' = courses /\ enrollments' = enrollments
       /\ out'.msg = "Data exported successfully"
          => LET v == out'.val
                 ps == CHOOSE k \in LinesAt(v, "STUDENTS") : TRUE
                 pcs == CHOOSE k \in LinesAt(v, "COURSES") : TRUE
                 pe == CHOOSE k \in LinesAt(v, "ENROLLMENTS") : TRUE
             IN  /\ Cardinality(LinesAt(v, "STUDENTS")) = 1
                 /\ Cardinality(LinesAt(v, "COURSES")) = 1
                 /\ Cardinality(LinesAt(v, "ENROLLMENTS")) = 1
                 /\ ps < pcs /\ pcs < pe
                 /\ LinesAt(v, "ID") \cup LinesAt(v, "Enrollment ID")
                       \subseteq (ps + 1)..Len(v)
                 /\ RecordLines(v, ps, pcs, "ID")
                       = [k \in 1..student_count |-> students[k].student_id]
                 /\ RecordLines(v, pcs, pe, "ID")
                       = [k \in 1..course_count |-> courses[k].course_id]
                 /\ RecordLines(v, pe, Len(v) + 1, "Enrollment ID")
                       = [k \in 1..enrollment_count |-> enrollments[k].enrollment_id]
                 /\ RecordLines(v, ps, pe, "Enrollment ID") = <<>>
                 /\ RecordLines(v, pe, Len(v) + 1, "ID") = <<>>]_vars

(* an export succeeded with two students, one course and two           *)
(* enrollments in the tables                                           *)
C17_Witness ==
    /\ out.op = "export_data_to_file"
    /\ out.msg = "Data exported successfully"
    /\ student_count = 2
    /\ course_count = 1
    /\ enrollment_count = 2
    /\ Cardinality(LinesAt(out.val, "ID")) = 3
    /\ Cardinality(LinesAt(out.val, "Enrollment ID")) = 2

(* the step reads something that is not a number, or a number outside  *)
(* 1..16                                                               *)
ReadsInvalid == invalid_input \/ \E ch \in Choices \ (1..16) : menu(ch)

(* the step reads the exit choice *)
ReadsExit == menu(16)

(* the step appended exactly this entry to the log *)
Logged(level, operation) ==
    /\ log_entry_count' = log_entry_count + 1
    /\ \A i \in 1..log_entry_count : system_log'[i] = system_log[i]
    /\ system_log'[log_entry_count'].log_id = log_entry_count'
    /\ system_log'[log_entry_count'].log_level = level
    /\ system_log'[log_entry_count'].operation = operation

(* what C18 says of the loop apart from the log: an invalid choice     *)
(* changes no table and the loop goes on; only the exit choice ends    *)
(* the loop, with exit code 0; nothing happens after the exit          *)
ShellLoop ==
    /\ (out'.op = "main" /\ ReadsInvalid)
       => (students' = students /\ courses' = courses /\ enrollments' = enrollments
           /\ pc' = "menu")
    /\ (out'.op = "main" /\ ReadsExit)
       => (students' = students /\ courses' = courses /\ enrollments' = enrollments
           /\ pc' = "exit" /\ out'.ret = 0)
    /\ pc' # pc => (pc = "menu" /\ pc' = "exit" /\ ReadsExit)
    /\ pc = "exit" => vars' = vars

(* C18 as stated: the shell reads choices until it reads the exit      *)
(* choice (16); a non-numeric or out-of-range choice appends one       *)
(* warning entry to the log, changes no table, and the loop goes on;   *)
(* the exit choice appends a shutdown entry and the process ends with  *)
(* the success exit code, after which nothing is dispatched.           *)
C18_ShellAlwaysLogs ==
    [][ /\ ShellLoop
        /\ (out'.op = "main" /\ ReadsInvalid) => Logged(2, "Menu")
        /\ (out'.op = "main" /\ ReadsExit) => Logged(1, "System Shutdown")
      ]_vars

(* C18 amended: the same, except that the warning entry and the        *)
(* shutdown entry are appended only while the log has room; with a     *)
(* full log the step leaves the log as it is and otherwise does the    *)
(* same.                                                               *)
C18_ShellLogsWhileRoom ==
    [][ /\ ShellLoop
        /\ (out'.op = "main" /\ ReadsInvalid)
           => IF log_entry_count < MAX_LOG_ENTRIES
              THEN Logged(2, "Menu") ELSE system_log' = system_log
        /\ (out'.op = "main" /\ ReadsExit)
           => IF log_entry_count < MAX_LOG_ENTRIES
              THEN Logged(1, "System Shutdown") ELSE system_log' = system_log
      ]_vars

(* the process has ended on the exit choice after an out-of-range      *)
(* choice had been read: the log holds its warning, a student had been *)
(* added before, and the shutdown entry found the log full             *)
C18_Witness ==
    /\ pc = "exit"
    /\ out.msg = "System shutting down..."
    /\ log_entry_count = MAX_LOG_ENTRIES
    /\ \E i \in 1..log_entry_count :
          /\ system_log[i].log_level = 2
          /\ system_log[i].details.text = "Invalid choice selected"
    /\ student_count = 1

(* C19: each course's current_enrollment is the number of Enrollment   *)
(* records with that course's identifier and a status other than       *)
(* dropped, and every Enrollment record refers to a student identifier *)
(* and a course identifier present in the Student and Course tables.   *)
C19_EnrollmentSync ==
    /\ \A i \in 1..course_count :
          courses[i].current_enrollment =
              Cardinality({j \in 1..enrollment_count :
                              /\ enrollments[j].course_id = courses[i].course_id
                              /\ enrollments[j].status # 3})
    /\ \A j \in 1..enrollment_count :
          /\ \E i \in 1..student_count :
                students[i].student_id = enrollments[j].student_id
          /\ \E i \in 1..course_count :
                courses[i].course_id = enrollments[j].course_id

(* an enrollment into the second course succeeded: each course counts  *)
(* one record, and the record of the first course is completed         *)
C19_Witness ==
    /\ out.op = "enroll_student_in_course"
    /\ out.ret = 1
    /\ course_count = 2
    /\ enrollment_count = 2
    /\ courses[1].current_enrollment = 1
    /\ courses[2].current_enrollment = 1
    /\ enrollments[2].course_id = courses[2].course_id
    /\ enrollments[1].status = 2

(* every record is pending or completed, and a pending record holds    *)
(* grade 0, letter '-' and 0 grade points                              *)
StatusShape(table) ==
    \A i \in 1..Len(table) :
        /\ table[i].status \in {0, 2}
        /\ table[i].status = 0
           => /\ table[i].grade = 0
              /\ table[i].letter_grade = "-"
              /\ table[i].credit_points = 0

(* C20: every Enrollment record has status pending or completed; a     *)
(* record is created pending and stays pending (grade 0, letter '-',   *)
(* 0 grade points) until a grade is recorded on it, which makes it     *)
(* completed; a completed record stays completed, and recording a      *)
(* grade on a completed record succeeds and overwrites its grade,      *)
(* letter and grade points.                                            *)
C20_StatusMoves ==
    [][ /\ StatusShape(enrollments)
        /\ StatusShape(enrollments')
        /\ enrollment_count' # enrollment_count
           => /\ enrollment_count' = enrollment_count + 1
              /\ enrollments'[enrollment_count'].status = 0
        /\ \A i \in 1..enrollment_count :
              /\ enrollments[i].status = 2 => enrollments'[i].status = 2
              /\ enrollments'[i].status # enrollments[i].status
                 => /\ out'.op = "record_grade"
                    /\ out'.ret = 1
                    /\ Shown(out', "Enrollment ID") = {enrollments[i].enrollment_id}
        /\ out'.op = "record_grade"
           => \A id \in EnrollmentIds, g \in BoundaryScores :
                 (InRange(g) /\ HasEnrollment(id) /\ record_grade(id, g))
                 => /\ out'.ret = 1
                    /\ enrollments'[EnrollmentAt(id)].status = 2
                    /\ enrollments'[EnrollmentAt(id)].grade = g
                    /\ enrollments'[EnrollmentAt(id)].letter_grade = LetterOf(g)
                    /\ enrollments'[EnrollmentAt(id)].credit_points = PointsOf(LetterOf(g))
      ]_vars

(* a grade of 70 (C, 2 points) was recorded on the first enrollment    *)
(* while the second, created after it, is still pending with grade 0   *)
C20_Witness ==
    /\ out.op = "record_grade"
    /\ out.ret = 1
    /\ Shown(out, "Grade") = {700}
    /\ enrollment_count = 2
    /\ enrollments[1].status = 2
    /\ enrollments[1].letter_grade = "C"
    /\ enrollments[2].status = 0
    /\ enrollments[2].grade = 0
    /\ enrollments[2].letter_grade = "-"

=============================================================================
